---- MODULE Spec2Model ----
(***************************************************************************)
(* Model of kernel.cu: the host function MatMul, which stages A and B on   *)
(* the accelerator, launches one of the two kernels and copies C back, and *)
(* the kernels MatMulKernelGeneral (one thread per cell of C) and          *)
(* MatMulKernelPartitioned (tiles staged in shared memory between two      *)
(* __syncthreads barriers).  Threads interleave statement by statement.    *)
(*                                                                         *)
(* Scale: the source fixes BLOCK_SIZE at 16 (256 threads in a block).  The *)
(* model keeps every formula in terms of BLOCK_SIZE and instantiates it    *)
(* with 2, so that a block is 2 x 2 threads and the interleavings can be   *)
(* enumerated.  Floats are modelled by natural numbers and the two values  *)
(* Inf and NaN; the order in which a thread adds its products is kept next *)
(* to the sum (field ord).                                                 *)
(***************************************************************************)
EXTENDS Integers, Sequences, FiniteSets, TLC

\* #define BLOCK_SIZE 16, scaled to 2 (see above)
BLOCK_SIZE == 2

\* bounds of the exploration
MaxCalls == 2
MaxFailures == 1
NHandles == 3

\* content of a cell nobody has written yet (fresh cudaMalloc memory, fresh
\* __shared__ memory): an indeterminate value.  Whatever a kernel computes
\* from it is indeterminate too; the host sees it as any of GarbageVals
Uninit == 0 - 1
GarbageVals == {0, 7}

\* a float is modelled by a natural number, or by one of the two values below
\* that float arithmetic yields outside the finite numbers
Inf == 0 - 2
NaN == 0 - 3

\* a device pointer is a handle (0 is the null pointer) and an element offset
NullPtr == [base |-> 0, off |-> 0]
Ptrs == 0..NHandles

cudaSuccess == "cudaSuccess"

-----------------------------------------------------------------------------
\* Caller-side inputs

\* contents the caller puts in a height x width row-major buffer
Fill(kind, height, width) ==
    [i \in 1..(height * width) |->
        LET r == (i - 1) \div width
            c == (i - 1) % width
        IN  CASE kind = "idx"   -> i
              [] kind = "odd"   -> 2 * i + 1
              [] kind = "ident" -> IF r = c THEN 1 ELSE 0
              [] kind = "ones"  -> 1
              [] kind = "inf"   -> IF i = 1 THEN Inf ELSE i
              [] OTHER          -> 0]

\* typedef struct { width; height; stride; elements } Matrix, host side
HostMatrix(height, width, kind) ==
    [width |-> width, height |-> height, stride |-> width,
     elements |-> Fill(kind, height, width)]

\* an input is <<A.height, A.width, B.width, fill of A, fill of B, fill of C>>
\* (B.height = A.width, C is A.height x B.width)
HostInputs ==
    {<<2, 2, 2>>} \X {"idx"} \X {"odd"} \X {"ones"}

PairInputs ==
    {<<2, 2, 2>>, <<2, 4, 2>>} \X {"idx"} \X {"odd"} \X {"ones"}

\* inputs for the algebraic laws: zeros, the identity, an infinite entry
LawInputs ==
    {<<2, 2, 2>>} \X {"idx", "zero", "inf"} \X {"ident", "zero", "inf"} \X {"ones"}

\* inputs that break the assumption of MatMul, "Matrix dimensions are assumed
\* to be multiples of BLOCK_SIZE", in A.width, in A.height or in B.width, next
\* to one that meets it
RaggedInputs ==
    {<<2, 3, 2>>, <<2, 1, 2>>, <<2, 4, 2>>,
     <<3, 2, 2>>, <<2, 2, 3>>, <<1, 2, 2>>, <<2, 2, 1>>}
        \X {"idx"} \X {"odd"} \X {"ones"}

GridInputs ==
    ({<<2, 2, 4>>, <<4, 2, 2>>, <<2, 4, 2>>} \X {"idx"} \X {"odd"} \X {"ones"})
    \cup ({<<2, 2, 2>>} \X {"idx", "zero"} \X {"odd", "ident", "zero"} \X {"ones", "zero"})

-----------------------------------------------------------------------------
VARIABLES
    A, B, C,         \* the caller's matrices (host memory)
    general,         \* MatMul's flag
    hostpc,          \* the host's place in MatMul
    d_A, d_B, d_C,   \* MatMul's device descriptors
    heap,            \* accelerator memory: live handle -> cells
    lastError,       \* the runtime's last-error slot
    sticky,          \* the context's sticky error (an execution fault)
    kernel,          \* the kernel launched by this call, "none" if none
    thr,             \* thread -> [pc, m, e, Cvalue, ord]
    As, Bs,          \* block -> the __shared__ tiles
    callsLeft, failuresLeft,
    \* history, read by the properties only
    input,           \* what the caller put in A, B and C before the first call
    pool0,           \* the live handles when the call began
    allocd,          \* "A"/"B"/"C" -> the handle this call allocated for it
    freed,           \* the handles this call freed
    failed,          \* the steps of this call that failed
    writes,          \* cell index of C -> the stores made to it
    res              \* flag -> what the last such call left in C

vars == <<A, B, C, general, hostpc, d_A, d_B, d_C, heap, lastError, sticky,
          kernel, thr, As, Bs, callsLeft, failuresLeft,
          input, pool0, allocd, freed, failed, writes, res>>

hostVars == <<A, B, C, input>>
descVars == <<d_A, d_B, d_C>>
kernVars == <<kernel, thr, As, Bs, writes>>
histVars == <<pool0, allocd, freed, failed, res>>

InputA(in) == HostMatrix(in[1][1], in[1][2], in[2])
InputB(in) == HostMatrix(in[1][2], in[1][3], in[3])
InputC(in) == HostMatrix(in[1][1], in[1][3], in[4])

NoMatrix == [width |-> 0, height |-> 0, stride |-> 0, elements |-> NullPtr]
None == [C |-> <<>>, ord |-> <<>>, ok |-> FALSE]

InitWith(inputs, calls, failures) ==
    /\ input \in inputs
    /\ A = InputA(input)
    /\ B = InputB(input)
    /\ C = InputC(input)
    /\ general = FALSE
    /\ hostpc = "idle"
    /\ d_A = NoMatrix /\ d_B = NoMatrix /\ d_C = NoMatrix
    /\ heap = << >>
    /\ lastError = cudaSuccess
    /\ sticky = cudaSuccess
    /\ kernel = "none"
    /\ thr = << >>
    /\ As = << >> /\ Bs = << >>
    /\ callsLeft = calls
    /\ failuresLeft = failures
    /\ pool0 = {}
    /\ allocd = << >> /\ freed = {}
    /\ failed = {}
    /\ writes = << >>
    /\ res = [g \in BOOLEAN |-> None]

Init == InitWith(HostInputs, MaxCalls, MaxFailures)

-----------------------------------------------------------------------------
\* The accelerator runtime as MatMul uses it

\* the error a failing call leaves in the last-error slot: a sticky error
\* (an earlier execution fault) is what every later call reports
ApiError(err) == IF sticky # cudaSuccess THEN sticky ELSE err

FreeHandles == (1..NHandles) \ DOMAIN heap
Fresh == CHOOSE h \in FreeHandles : \A k \in FreeHandles : h <= k

\* cudaMalloc(&p, size) either returns a fresh buffer of size cells, or fails
\* and leaves p as it was: MatMul never initialised p, so its value is then
\* any pointer at all (null, a stale handle, another buffer's handle)
MallocOutcomes ==
    LET fail == {[ok |-> FALSE, ptr |-> p] : p \in Ptrs}
    IN  IF sticky # cudaSuccess \/ FreeHandles = {} THEN fail
        ELSE {[ok |-> TRUE, ptr |-> Fresh]}
             \cup (IF failuresLeft > 0 THEN fail ELSE {})

cudaMalloc(o, name, size) ==
    /\ heap' = IF o.ok THEN heap @@ (o.ptr :> [i \in 1..size |-> Uninit])
                       ELSE heap
    /\ lastError' = IF o.ok THEN lastError
                            ELSE ApiError("cudaErrorMemoryAllocation")
    /\ allocd' = IF o.ok THEN allocd @@ (name :> o.ptr) ELSE allocd
    /\ failed' = IF o.ok THEN failed ELSE failed \cup {"alloc"}
    /\ failuresLeft' = IF ~o.ok /\ sticky = cudaSuccess /\ FreeHandles # {}
                       THEN failuresLeft - 1 ELSE failuresLeft

\* whether cells p[0 .. n-1] lie in one live buffer
InBuffer(p, n) ==
    /\ p.base \in DOMAIN heap
    /\ p.off >= 0
    /\ p.off + n <= Len(heap[p.base])

\* cudaMemcpy(dst, src, size, cudaMemcpyHostToDevice)
cudaMemcpyHostToDevice(dst, src, size) ==
    IF sticky = cudaSuccess /\ InBuffer(dst, size)
    THEN /\ heap' = [heap EXCEPT ![dst.base] =
                        [i \in DOMAIN @ |->
                            IF i - dst.off \in 1..size THEN src[i - dst.off]
                                                       ELSE @[i]]]
         /\ UNCHANGED <<lastError, failed>>
    ELSE /\ lastError' = ApiError("cudaErrorInvalidValue")
         /\ failed' = failed \cup {"copy"}
         /\ UNCHANGED heap

\* cudaFree(p)
cudaFree(p) ==
    IF sticky = cudaSuccess /\ (p.base = 0 \/ (p.base \in DOMAIN heap /\ p.off = 0))
    THEN /\ heap' = [h \in DOMAIN heap \ {p.base} |-> heap[h]]
         /\ freed' = IF p.base = 0 THEN freed ELSE freed \cup {p.base}
         /\ UNCHANGED <<lastError, failed>>
    ELSE /\ lastError' = ApiError("cudaErrorInvalidValue")
         /\ failed' = failed \cup {"free"}
         /\ UNCHANGED <<heap, freed>>

-----------------------------------------------------------------------------
\* MatMul - host code

\* MatMul( a, b, c, flag ) as main calls it
Call ==
    /\ hostpc = "idle"
    /\ callsLeft > 0
    /\ \E flag \in BOOLEAN : general' = flag
    /\ callsLeft' = callsLeft - 1
    /\ hostpc' = "mallocA"
    /\ pool0' = DOMAIN heap
    /\ allocd' = << >> /\ freed' = {} /\ failed' = {}
    /\ UNCHANGED <<hostVars, descVars, heap, lastError, sticky, kernVars,
                   failuresLeft, res>>

\* Matrix d_X; d_X.width = d_X.stride = X.width; d_X.height = X.height;
\* cudaMalloc(&d_X.elements, size)
Descriptor(M, ptr) ==
    [width |-> M.width, height |-> M.height, stride |-> M.width,
     elements |-> [base |-> ptr, off |-> 0]]

Size(M) == M.width * M.height

MallocA ==
    /\ hostpc = "mallocA"
    /\ \E o \in MallocOutcomes :
         /\ cudaMalloc(o, "A", Size(A))
         /\ d_A' = Descriptor(A, o.ptr)
    /\ hostpc' = "copyA"
    /\ UNCHANGED <<hostVars, general, d_B, d_C, sticky, kernVars, callsLeft,
                   pool0, freed, res>>

CopyA ==
    /\ hostpc = "copyA"
    /\ cudaMemcpyHostToDevice(d_A.elements, A.elements, Size(A))
    /\ hostpc' = "mallocB"
    /\ UNCHANGED <<hostVars, general, descVars, sticky, kernVars, callsLeft,
                   failuresLeft, pool0, allocd, freed, res>>

MallocB ==
    /\ hostpc = "mallocB"
    /\ \E o \in MallocOutcomes :
         /\ cudaMalloc(o, "B", Size(B))
         /\ d_B' = Descriptor(B, o.ptr)
    /\ hostpc' = "copyB"
    /\ UNCHANGED <<hostVars, general, d_A, d_C, sticky, kernVars, callsLeft,
                   pool0, freed, res>>

CopyB ==
    /\ hostpc = "copyB"
    /\ cudaMemcpyHostToDevice(d_B.elements, B.elements, Size(B))
    /\ hostpc' = "mallocC"
    /\ UNCHANGED <<hostVars, general, descVars, sticky, kernVars, callsLeft,
                   failuresLeft, pool0, allocd, freed, res>>

MallocC ==
    /\ hostpc = "mallocC"
    /\ \E o \in MallocOutcomes :
         /\ cudaMalloc(o, "C", Size(C))
         /\ d_C' = Descriptor(C, o.ptr)
    /\ hostpc' = "launch"
    /\ UNCHANGED <<hostVars, general, d_A, d_B, sticky, kernVars, callsLeft,
                   pool0, freed, res>>

\* dim3 dimBlock(BLOCK_SIZE, BLOCK_SIZE);
dimBlock == [x |-> BLOCK_SIZE, y |-> BLOCK_SIZE]

\* mutant: the grid's x taken from the rows and its y from the columns
dimGrid_Swapped == [x |-> A.height \div dimBlock.y, y |-> B.width \div dimBlock.x]

\* dim3 dimGrid(B.width / dimBlock.x, A.height / dimBlock.y);
dimGrid == [x |-> B.width \div dimBlock.x, y |-> A.height \div dimBlock.y]

\* a thread is <<blockIdx.x, blockIdx.y, threadIdx.x, threadIdx.y>>
Threads(grid, block) ==
    (0..(grid.x - 1)) \X (0..(grid.y - 1)) \X (0..(block.x - 1)) \X (0..(block.y - 1))
Blocks(grid) == (0..(grid.x - 1)) \X (0..(grid.y - 1))
blockOf(w) == <<w[1], w[2]>>

\* mutant: the branches of the if exchanged
KernelFor_Swapped(flag) == IF flag THEN "Partitioned" ELSE "General"

\* if( general ) MatMulKernelGeneral<<< >>> else MatMulKernelPartitioned<<< >>>
KernelFor(flag) == IF flag THEN "General" ELSE "Partitioned"

\* mutant: the loop bound taken from the height
NumTiles_Height(M) == M.height \div BLOCK_SIZE

\* mutant: a last, partial tile gets a pass of its own
NumTiles_Ceil(M) == (M.width + BLOCK_SIZE - 1) \div BLOCK_SIZE

\* the number of passes of the loop  for (m = 0; m < (A.width / BLOCK_SIZE); ++m)
NumTiles(M) == M.width \div BLOCK_SIZE

\* where a thread starts: both kernels test their loop condition first
FirstPc(k) ==
    IF k = "General"
    THEN (IF 0 < d_A.width THEN "loop" ELSE "store")
    ELSE (IF 0 < NumTiles(d_A) THEN "loadA" ELSE "store")

\* a __shared__ cell holds a value and, for the properties, the index of the
\* global cell it was loaded from
NoCell == [val |-> Uninit, src |-> Uninit]
EmptyTile == [r \in 0..(BLOCK_SIZE - 1) |-> [c \in 0..(BLOCK_SIZE - 1) |-> NoCell]]

\* mutant: a grid with a dimension of zero is launched like any other
LaunchOutcomes_NoConfigCheck ==
    IF sticky # cudaSuccess THEN {"cudaErrorLaunchFailure"}
    ELSE {cudaSuccess}
         \cup (IF failuresLeft > 0 THEN {"cudaErrorLaunchOutOfResources"} ELSE {})

\* the <<< >>> launch: refused under a sticky error, with an empty grid, or
\* for want of resources; otherwise every thread of the grid starts
LaunchOutcomes ==
    IF sticky # cudaSuccess THEN {"cudaErrorLaunchFailure"}
    ELSE IF dimGrid.x = 0 \/ dimGrid.y = 0 THEN {"cudaErrorInvalidConfiguration"}
    ELSE {cudaSuccess}
         \cup (IF failuresLeft > 0 THEN {"cudaErrorLaunchOutOfResources"} ELSE {})

\* mutant: a return straight after a launch that failed
AfterLaunch_EarlyReturn(err) == IF err = cudaSuccess THEN "copyOut" ELSE "ret"

\* mutant: no copy of the result back to the host
AfterLaunch_NoCopyOut(err) == "freeA"

\* what MatMul does after the launch statement, whatever its outcome: the
\* cudaMemcpy of C is the next statement
AfterLaunch(err) == "copyOut"

Launch ==
    /\ hostpc = "launch"
    /\ \E err \in LaunchOutcomes :
         /\ hostpc' = AfterLaunch(err)
         /\ IF err = cudaSuccess
            THEN /\ kernel' = KernelFor(general)
                 /\ thr' = [w \in Threads(dimGrid, dimBlock) |->
                               [pc |-> FirstPc(KernelFor(general)), m |-> 0,
                                e |-> 0, Cvalue |-> 0, ord |-> << >>]]
                 /\ As' = [g \in Blocks(dimGrid) |-> EmptyTile]
                 /\ Bs' = [g \in Blocks(dimGrid) |-> EmptyTile]
                 /\ writes' = [i \in 0..(Size(d_C) - 1) |-> << >>]
                 /\ UNCHANGED <<lastError, failed, failuresLeft>>
            ELSE /\ lastError' = ApiError(err)
                 /\ failed' = failed \cup {"launch"}
                 /\ failuresLeft' = IF err = "cudaErrorLaunchOutOfResources"
                                    THEN failuresLeft - 1 ELSE failuresLeft
                 /\ UNCHANGED kernVars
    /\ UNCHANGED <<hostVars, general, descVars, heap, sticky, callsLeft,
                   pool0, allocd, freed, res>>

-----------------------------------------------------------------------------
\* Device memory as the kernels see it

\* M.elements[i] is a cell of a live buffer
Valid(M, i) ==
    /\ M.elements.base \in DOMAIN heap
    /\ (M.elements.off + i) \in 0..(Len(heap[M.elements.base]) - 1)

Cell(M, i) == heap[M.elements.base][M.elements.off + i + 1]

\* float a * b: a NaN factor gives NaN, infinity times zero is NaN
Times(a, b) ==
    IF a = NaN \/ b = NaN THEN NaN
    ELSE IF a = Inf \/ b = Inf THEN (IF a = 0 \/ b = 0 THEN NaN ELSE Inf)
    ELSE a * b

\* float a + b (no negative numbers in the model, hence no Inf - Inf)
Plus(a, b) ==
    IF a = NaN \/ b = NaN THEN NaN
    ELSE IF a = Inf \/ b = Inf THEN Inf
    ELSE a + b

\* mutant: Cvalue = a * b, the sum so far dropped
MulAdd_NoAccumulate(Cvalue, a, b) ==
    IF Cvalue = Uninit \/ a = Uninit \/ b = Uninit THEN Uninit
    ELSE Times(a, b)

\* mutant: Cvalue += a + b
MulAdd_Sum(Cvalue, a, b) ==
    IF Cvalue = Uninit \/ a = Uninit \/ b = Uninit THEN Uninit
    ELSE Plus(Cvalue, Plus(a, b))

\* Cvalue += a * b
MulAdd(Cvalue, a, b) ==
    IF Cvalue = Uninit \/ a = Uninit \/ b = Uninit THEN Uninit
    ELSE Plus(Cvalue, Times(a, b))

\* an access outside every live buffer: the kernel dies and the context keeps
\* the error for every later runtime call
Fault ==
    /\ thr' = [u \in DOMAIN thr |-> [thr[u] EXCEPT !.pc = "aborted"]]
    /\ sticky' = "cudaErrorIllegalAddress"
    /\ failed' = failed \cup {"exec"}

KernelDone == \A w \in DOMAIN thr : thr[w].pc \in {"done", "aborted"}

-----------------------------------------------------------------------------
\* __global__ void MatMulKernelGeneral(Matrix A, Matrix B, Matrix C)

\* int row = blockIdx.y * blockDim.y + threadIdx.y;
\* int col = blockIdx.x * blockDim.x + threadIdx.x;
GeneralRow(w) == w[2] * dimBlock.y + w[4]
GeneralCol(w) == w[1] * dimBlock.x + w[3]

\* A.elements[row * A.width + e] and B.elements[e * B.width + col]
GeneralIndexA(w, e) == GeneralRow(w) * d_A.width + e
\* mutant: B indexed with its height for a row length
GeneralIndexB_Height(w, e) == e * d_B.height + GeneralCol(w)
GeneralIndexB(w, e) == e * d_B.width + GeneralCol(w)
\* C.elements[row * C.width + col]
GeneralIndexC(w) == GeneralRow(w) * d_C.width + GeneralCol(w)

\* one pass of  for (e = 0; e < A.width; ++e) Cvalue += A[..] * B[..];
GeneralLoop ==
    /\ kernel = "General"
    /\ \E w \in DOMAIN thr :
         /\ thr[w].pc = "loop"
         /\ LET e == thr[w].e
                ia == GeneralIndexA(w, e)
                ib == GeneralIndexB(w, e)
            IN  IF Valid(d_A, ia) /\ Valid(d_B, ib)
                THEN /\ thr' = [thr EXCEPT ![w] =
                                    [@ EXCEPT !.Cvalue = MulAdd(@, Cell(d_A, ia), Cell(d_B, ib)),
                                              !.ord = Append(@, <<ia, ib>>),
                                              !.e = e + 1,
                                              !.pc = IF e + 1 < d_A.width
                                                     THEN "loop" ELSE "store"]]
                     /\ UNCHANGED <<sticky, failed>>
                ELSE Fault
    /\ UNCHANGED <<hostVars, general, hostpc, descVars, heap, lastError,
                   kernel, As, Bs, writes, callsLeft, failuresLeft,
                   pool0, allocd, freed, res>>

\* a store of thread w's Cvalue to cell i of matrix M
Store(w, M, i) ==
    IF Valid(M, i)
    THEN /\ heap' = [heap EXCEPT ![M.elements.base][M.elements.off + i + 1] =
                        thr[w].Cvalue]
         /\ writes' = [writes EXCEPT ![M.elements.off + i] =
                          Append(@, [by |-> w, ord |-> thr[w].ord])]
         /\ thr' = [thr EXCEPT ![w].pc = "done"]
         /\ UNCHANGED <<sticky, failed>>
    ELSE /\ Fault
         /\ UNCHANGED <<heap, writes>>

\* C.elements[row * C.width + col] = Cvalue;
GeneralStore ==
    /\ kernel = "General"
    /\ \E w \in DOMAIN thr :
         /\ thr[w].pc = "store"
         /\ Store(w, d_C, GeneralIndexC(w))
    /\ UNCHANGED <<hostVars, general, hostpc, descVars, lastError,
                   kernel, As, Bs, callsLeft, failuresLeft,
                   pool0, allocd, freed, res>>

-----------------------------------------------------------------------------
\* mutant: the block row and the block column exchanged in the address
GetSubMatrix_Swapped(M, row, col) ==
    [width |-> BLOCK_SIZE,
     height |-> BLOCK_SIZE,
     stride |-> M.stride,
     elements |-> [base |-> M.elements.base,
                   off |-> M.elements.off
                           + M.stride * BLOCK_SIZE * col + BLOCK_SIZE * row]]

\* __device__ Matrix GetSubMatrix(Matrix A, int row, int col)
GetSubMatrix(M, row, col) ==
    [width |-> BLOCK_SIZE,
     height |-> BLOCK_SIZE,
     stride |-> M.stride,
     elements |-> [base |-> M.elements.base,
                   off |-> M.elements.off
                           + M.stride * BLOCK_SIZE * row + BLOCK_SIZE * col]]

-----------------------------------------------------------------------------
\* __global__ void MatMulKernelPartitioned(Matrix A, Matrix B, Matrix C)

blockRow(w) == w[2]
blockCol(w) == w[1]
row(w) == w[4]
col(w) == w[3]

Csub(w) == GetSubMatrix(d_C, blockRow(w), blockCol(w))
Asub(w, m) == GetSubMatrix(d_A, blockRow(w), m)
\* mutant: the tile of B taken at (blockCol, m)
Bsub_Transposed(w, m) == GetSubMatrix(d_B, blockCol(w), m)
Bsub(w, m) == GetSubMatrix(d_B, m, blockCol(w))

\* a load of cell i of tile T into a __shared__ cell
Load(T, i) == [val |-> Cell(T, i), src |-> T.elements.off + i]

\* As[row][col] = Asub.elements[row * Asub.stride + col];
LoadA ==
    /\ kernel = "Partitioned"
    /\ \E w \in DOMAIN thr :
         /\ thr[w].pc = "loadA"
         /\ LET T == Asub(w, thr[w].m)
                i == row(w) * T.stride + col(w)
            IN  IF Valid(T, i)
                THEN /\ As' = [As EXCEPT ![blockOf(w)][row(w)][col(w)] = Load(T, i)]
                     /\ thr' = [thr EXCEPT ![w].pc = "loadB"]
                     /\ UNCHANGED <<sticky, failed>>
                ELSE /\ Fault
                     /\ UNCHANGED As
    /\ UNCHANGED <<hostVars, general, hostpc, descVars, heap, lastError,
                   kernel, Bs, writes, callsLeft, failuresLeft,
                   pool0, allocd, freed, res>>

\* Bs[row][col] = Bsub.elements[row * Bsub.stride + col];  then the thread is
\* at the first __syncthreads(), its e = 0 of the product loop already set
LoadB ==
    /\ kernel = "Partitioned"
    /\ \E w \in DOMAIN thr :
         /\ thr[w].pc = "loadB"
         /\ LET T == Bsub(w, thr[w].m)
                i == row(w) * T.stride + col(w)
            IN  IF Valid(T, i)
                THEN /\ Bs' = [Bs EXCEPT ![blockOf(w)][row(w)][col(w)] = Load(T, i)]
                     /\ thr' = [thr EXCEPT ![w] = [@ EXCEPT !.pc = "sync1", !.e = 0]]
                     /\ UNCHANGED <<sticky, failed>>
                ELSE /\ Fault
                     /\ UNCHANGED Bs
    /\ UNCHANGED <<hostVars, general, hostpc, descVars, heap, lastError,
                   kernel, As, writes, callsLeft, failuresLeft,
                   pool0, allocd, freed, res>>

\* a thread leaving a barrier: from the first into the product loop, from the
\* second into ++m and the test m < (A.width / BLOCK_SIZE)
Release(t) ==
    IF t.pc = "sync1"
    THEN [t EXCEPT !.pc = "acc"]
    ELSE [t EXCEPT !.m = t.m + 1,
                   !.pc = IF t.m + 1 < NumTiles(d_A) THEN "loadA" ELSE "store"]

\* mutant: no first __syncthreads(), a thread goes on from its loads at once
Released_NoFirstBarrier(g) ==
    LET block == {w \in DOMAIN thr : blockOf(w) = g}
        at1 == {w \in block : thr[w].pc = "sync1"}
    IN  IF at1 # {} THEN at1
        ELSE IF \A w \in block : thr[w].pc = "sync2" THEN block ELSE {}

\* mutant: no second __syncthreads(), a thread goes on from its products at once
Released_NoSecondBarrier(g) ==
    LET block == {w \in DOMAIN thr : blockOf(w) = g}
        at2 == {w \in block : thr[w].pc = "sync2"}
    IN  IF at2 # {} THEN at2
        ELSE IF \A w \in block : thr[w].pc = "sync1" THEN block ELSE {}

\* mutant: the second __syncthreads() never lets a block through
Released_FirstOnly(g) ==
    LET block == {w \in DOMAIN thr : blockOf(w) = g}
    IN  IF \A w \in block : thr[w].pc = "sync1" THEN block ELSE {}

\* __syncthreads(): the threads of block g that may pass: all of them once
\* all have arrived, none before
Released(g) ==
    LET block == {w \in DOMAIN thr : blockOf(w) = g}
    IN  IF \A w \in block : thr[w].pc \in {"sync1", "sync2"} THEN block ELSE {}

SyncThreads ==
    /\ kernel = "Partitioned"
    /\ \E g \in DOMAIN As :
         /\ Released(g) # {}
         /\ thr' = [w \in DOMAIN thr |->
                       IF w \in Released(g) THEN Release(thr[w]) ELSE thr[w]]
    /\ UNCHANGED <<hostVars, general, hostpc, descVars, heap, lastError, sticky,
                   kernel, As, Bs, writes, callsLeft, failuresLeft,
                   pool0, allocd, freed, failed, res>>

\* mutant: the tile walked from its last column to its first
AccIndex_Reversed(e) == BLOCK_SIZE - 1 - e

\* the tile column / row that pass e of the product loop multiplies
AccIndex(e) == e

\* one pass of  for (e = 0; e < BLOCK_SIZE; ++e) Cvalue += As[row][e] * Bs[e][col];
Accumulate ==
    /\ kernel = "Partitioned"
    /\ \E w \in DOMAIN thr :
         /\ thr[w].pc = "acc"
         /\ LET e == thr[w].e
                ca == As[blockOf(w)][row(w)][AccIndex(e)]
                cb == Bs[blockOf(w)][AccIndex(e)][col(w)]
            IN  thr' = [thr EXCEPT ![w] =
                             [@ EXCEPT !.Cvalue = MulAdd(@, ca.val, cb.val),
                                       !.ord = Append(@, <<ca.src, cb.src>>),
                                       !.e = e + 1,
                                       !.pc = IF e + 1 < BLOCK_SIZE
                                              THEN "acc" ELSE "sync2"]]
    /\ UNCHANGED <<hostVars, general, hostpc, descVars, heap, lastError, sticky,
                   kernel, As, Bs, writes, callsLeft, failuresLeft,
                   pool0, allocd, freed, failed, res>>

\* Csub.elements[row * Csub.stride + col] = Cvalue;
PartitionedIndexC(w) == row(w) * Csub(w).stride + col(w)

PartitionedStore ==
    /\ kernel = "Partitioned"
    /\ \E w \in DOMAIN thr :
         /\ thr[w].pc = "store"
         /\ Store(w, Csub(w), PartitionedIndexC(w))
    /\ UNCHANGED <<hostVars, general, hostpc, descVars, lastError,
                   kernel, As, Bs, callsLeft, failuresLeft,
                   pool0, allocd, freed, res>>

-----------------------------------------------------------------------------
\* MatMul - host code, after the launch

\* mutant: the copy starts without waiting for the kernel
CopyOutReady_NoWait == TRUE

\* cudaMemcpy(C.elements, d_C.elements, size, cudaMemcpyDeviceToHost): on the
\* default stream the copy starts only when the launched kernel has ended
CopyOutReady == KernelDone

CopyOut ==
    /\ hostpc = "copyOut"
    /\ CopyOutReady
    /\ IF sticky = cudaSuccess /\ InBuffer(d_C.elements, Size(C))
       THEN /\ \E g \in (IF \E i \in 0..(Size(C) - 1) : Cell(d_C, i) = Uninit
                         THEN GarbageVals ELSE {0}) :
                 C' = [C EXCEPT !.elements =
                         [i \in 1..Size(C) |->
                            IF Cell(d_C, i - 1) = Uninit THEN g
                                                         ELSE Cell(d_C, i - 1)]]
            /\ UNCHANGED <<lastError, failed>>
       ELSE /\ lastError' = ApiError("cudaErrorInvalidValue")
            /\ failed' = failed \cup {"copy"}
            /\ UNCHANGED C
    /\ hostpc' = "freeA"
    /\ UNCHANGED <<A, B, input, general, descVars, heap, sticky, kernVars,
                   callsLeft, failuresLeft, pool0, allocd, freed, res>>

FreeA ==
    /\ hostpc = "freeA"
    /\ cudaFree(d_A.elements)
    /\ hostpc' = "freeB"
    /\ UNCHANGED <<hostVars, general, descVars, sticky, kernVars, callsLeft,
                   failuresLeft, pool0, allocd, res>>

FreeB ==
    /\ hostpc = "freeB"
    /\ cudaFree(d_B.elements)
    /\ hostpc' = "freeC"
    /\ UNCHANGED <<hostVars, general, descVars, sticky, kernVars, callsLeft,
                   failuresLeft, pool0, allocd, res>>

FreeC ==
    /\ hostpc = "freeC"
    /\ cudaFree(d_C.elements)
    /\ hostpc' = "ret"
    /\ UNCHANGED <<hostVars, general, descVars, sticky, kernVars, callsLeft,
                   failuresLeft, pool0, allocd, res>>

\* the closing brace of MatMul: the locals are gone, C is the caller's again
Return ==
    /\ hostpc = "ret"
    /\ hostpc' = "idle"
    /\ res' = [res EXCEPT ![general] =
                  [C |-> C.elements,
                   ord |-> [i \in DOMAIN writes |-> [k \in DOMAIN writes[i] |-> writes[i][k].ord]],
                   ok |-> failed = {}]]
    /\ d_A' = NoMatrix /\ d_B' = NoMatrix /\ d_C' = NoMatrix
    /\ kernel' = "none"
    /\ thr' = << >> /\ As' = << >> /\ Bs' = << >>
    /\ writes' = << >>
    /\ UNCHANGED <<hostVars, general, heap, lastError, sticky, callsLeft,
                   failuresLeft, pool0, allocd, freed, failed>>

-----------------------------------------------------------------------------
Next ==
    \/ Call
    \/ MallocA \/ CopyA \/ MallocB \/ CopyB \/ MallocC
    \/ Launch
    \/ GeneralLoop \/ GeneralStore
    \/ LoadA \/ LoadB \/ SyncThreads \/ Accumulate \/ PartitionedStore
    \/ CopyOut
    \/ FreeA \/ FreeB \/ FreeC
    \/ Return

Spec == Init /\ [][Next]_vars

\* one call per run, on grids of one and two blocks and on one and two tiles,
\* every runtime call succeeding
InitGrid == InitWith(GridInputs, MaxCalls - 1, 0)
SpecGrid == InitGrid /\ [][Next]_vars

\* one call per run on the inputs of the laws, every runtime call succeeding
InitLaw == InitWith(LawInputs, MaxCalls - 1, 0)
SpecLaw == InitLaw /\ [][Next]_vars

\* one call per run on dimensions that are not multiples of BLOCK_SIZE
InitRagged == InitWith(RaggedInputs, MaxCalls - 1, 0)
SpecRagged == InitRagged /\ [][Next]_vars

\* one call per run, on one and on two tiles, under fair scheduling: the host goes on to its next
\* statement, and some thread that can take a step takes one
InitFair == InitWith(PairInputs, MaxCalls - 1, 0)
SpecFair == InitFair /\ [][Next]_vars /\ WF_vars(Next)

\* runs of several calls, every runtime call succeeding
InitPair == InitWith(PairInputs, MaxCalls, 0)
SpecPair == InitPair /\ [][Next]_vars

-----------------------------------------------------------------------------
\* What the properties speak of

\* M(row, col) = *(M.elements + row * M.width + col), of a host matrix
Elem(M, r, c) == M.elements[r * M.width + c + 1]

RECURSIVE DotProduct(_, _, _)
\* the sum over e in 0..n-1 of A(r,e) * B(e,c)
DotProduct(r, c, n) ==
    IF n = 0 THEN 0
    ELSE DotProduct(r, c, n - 1) + Elem(A, r, n - 1) * Elem(B, n - 1, c)

DimInvariants ==
    /\ A.width % BLOCK_SIZE = 0 /\ A.height % BLOCK_SIZE = 0
    /\ B.width % BLOCK_SIZE = 0
    /\ C.width % BLOCK_SIZE = 0 /\ C.height % BLOCK_SIZE = 0
    /\ A.width = B.height /\ A.height = C.height /\ B.width = C.width

\* the three buffers of this call exist and A and B were copied into theirs
Staged ==
    /\ DOMAIN allocd = {"A", "B", "C"}
    /\ "copy" \notin failed

\* the launched kernel has ended and MatMul has not yet copied C out
KernelEnded(k) ==
    /\ hostpc = "copyOut"
    /\ kernel = k
    /\ KernelDone

\* the accelerator's C is the product
DeviceProduct ==
    \A r \in 0..(C.height - 1), c \in 0..(C.width - 1) :
        Cell(d_C, r * d_C.width + c) = DotProduct(r, c, A.width)

\* C1: when the tiled kernel has ended, whatever the interleaving of its
\* threads between the barriers, every cell C(r,c) of the accelerator's C is the
\* sum over e of A(r,e) * B(e,c)
C1_TiledKernelCorrect ==
    (KernelEnded("Partitioned") /\ Staged /\ DimInvariants) => DeviceProduct

\* a tiled run over two tiles has ended
C1_Witness ==
    /\ KernelEnded("Partitioned") /\ Staged /\ DimInvariants
    /\ NumTiles(d_A) = 2
    /\ \A w \in DOMAIN thr : thr[w].pc = "done"

\* C2: when the direct kernel has ended, whatever the order of its threads,
\* every cell C(row,col) of the accelerator's C is the sum over e of
\* A(row,e) * B(e,col)
C2_DirectKernelCorrect ==
    (KernelEnded("General") /\ Staged /\ DimInvariants) => DeviceProduct

\* a direct run on a grid of two blocks has ended
C2_Witness ==
    /\ KernelEnded("General") /\ Staged /\ DimInvariants
    /\ Cardinality(Blocks(dimGrid)) = 2
    /\ \A w \in DOMAIN thr : thr[w].pc = "done"

\* the products of cell i of C in the order e = 0, 1, ..., A.width-1, each
\* named by the cells of A and of B it multiplies
LeftToRight(i) ==
    LET r == i \div C.width
        c == i % C.width
    IN  [k \in 1..A.width |-> <<r * A.width + (k - 1), (k - 1) * B.width + c>>]

\* C3: a call with the flag true and a call with the flag false that both
\* succeed leave the same contents in C, and in both every cell's sum was
\* built by adding the products A(r,e)*B(e,c) in the order e = 0, 1, ...,
\* A.width-1
C3_KernelsEquivalent ==
    DimInvariants =>
        /\ \A g \in BOOLEAN : res[g].ok =>
              \A i \in 0..(Size(C) - 1) : res[g].ord[i] = <<LeftToRight(i)>>
        /\ (res[TRUE].ok /\ res[FALSE].ok) => res[TRUE].C = res[FALSE].C

\* square inputs, one successful call with each value of the flag
C3_Witness ==
    /\ res[TRUE].ok /\ res[FALSE].ok
    /\ A.width = A.height /\ B.width = B.height /\ DimInvariants
    /\ res[TRUE].C = res[FALSE].C

\* the same on inputs of two tiles
C3_WitnessTwoTiles ==
    /\ res[TRUE].ok /\ res[FALSE].ok
    /\ NumTiles(A) = 2
    /\ res[TRUE].ord = res[FALSE].ord

\* thread u of w's block has made both its __shared__ writes of pass m
Loaded(u, m) == thr[u].m = m /\ thr[u].pc \in {"sync1", "acc", "sync2"}

\* C4: while a thread is in the product loop of pass m, every thread of its
\* block has made both its __shared__ writes of pass m, and the cells of As and
\* Bs the thread reads hold tile m of A and of B
C4_WritersBeforeReaders ==
    (kernel = "Partitioned" /\ Staged) =>
        \A w \in DOMAIN thr : thr[w].pc = "acc" =>
            LET m == thr[w].m
                TA == Asub(w, m)
                TB == Bsub(w, m)
            IN  /\ \A u \in DOMAIN thr : blockOf(u) = blockOf(w) => Loaded(u, m)
                /\ \A e \in 0..(BLOCK_SIZE - 1) :
                      /\ As[blockOf(w)][row(w)][e] = Load(TA, row(w) * TA.stride + e)
                      /\ Bs[blockOf(w)][e][col(w)] = Load(TB, e * TB.stride + col(w))

\* a thread is in the product loop of the second pass
C4_Witness ==
    /\ kernel = "Partitioned" /\ Staged
    /\ \E w \in DOMAIN thr : thr[w].pc = "acc" /\ thr[w].m = 1 /\ thr[w].e = 1

\* thread u has ended the product loop of pass m
Accumulated(u, m) == thr[u].m > m \/ (thr[u].m = m /\ thr[u].pc = "sync2")

\* C5: while a thread is writing As and Bs for pass m+1 (before, between and
\* after its two writes), every thread of its block has ended the product
\* loop of pass m
C5_ReadersBeforeNextWriters ==
    kernel = "Partitioned" =>
        \A w \in DOMAIN thr :
            (thr[w].pc \in {"loadA", "loadB", "sync1"} /\ thr[w].m >= 1) =>
                \A u \in DOMAIN thr :
                    blockOf(u) = blockOf(w) => Accumulated(u, thr[w].m - 1)

\* a thread has overwritten As for the second pass
C5_Witness ==
    /\ kernel = "Partitioned"
    /\ \E w \in DOMAIN thr : thr[w].pc = "loadB" /\ thr[w].m = 1

\* C6: in a kernel run no cell of C is stored to twice, no thread stores to
\* two cells, there is one thread per cell, and when the kernel has ended
\* every cell has been stored to once
C6_WriteOnceDisjoint ==
    (kernel # "none" /\ Staged /\ DimInvariants) =>
        /\ DOMAIN writes = 0..(Size(C) - 1)
        /\ Cardinality(DOMAIN thr) = Size(C)
        /\ \A i \in DOMAIN writes : Len(writes[i]) <= 1
        /\ \A i, j \in DOMAIN writes :
              (i # j /\ writes[i] # << >> /\ writes[j] # << >>)
                  => writes[i][1].by # writes[j][1].by
        /\ KernelDone => \A i \in DOMAIN writes : Len(writes[i]) = 1

\* a tiled run on a grid of two blocks has stored every cell
C6_Witness ==
    /\ KernelEnded("Partitioned") /\ Staged /\ DimInvariants
    /\ Cardinality(DOMAIN As) = 2
    /\ \A i \in DOMAIN writes : Len(writes[i]) = 1

Range(f) == {f[x] : x \in DOMAIN f}

\* C7: a call in which nothing failed, or only the launch, has allocated three
\* buffers, one each for A, B and C, and freed exactly those when it returns,
\* so that the live buffers are those of before the call; and while no
\* execution fault has occurred no buffer is live between two calls
C7_NoLeakAcrossCalls ==
    /\ (hostpc = "ret" /\ failed \subseteq {"launch"}) =>
          /\ DOMAIN allocd = {"A", "B", "C"}
          /\ Cardinality(Range(allocd)) = 3
          /\ freed = Range(allocd)
          /\ DOMAIN heap = pool0
    /\ (hostpc = "idle" /\ sticky = cudaSuccess) => DOMAIN heap = {}

\* the second call returns after its launch failed
C7_Witness ==
    /\ hostpc = "ret" /\ failed = {"launch"}
    /\ callsLeft = 0
    /\ Cardinality(freed) = 3

\* the steps of MatMul after the launch statement
AfterLaunchPcs == {"copyOut", "freeA", "freeB", "freeC", "ret"}

\* C8 as stated: the flag true launches the tiled kernel, the flag false the
\* direct kernel
C8_TrueLaunchesTiled ==
    (hostpc \in AfterLaunchPcs /\ "launch" \notin failed) =>
        kernel = (IF general THEN "Partitioned" ELSE "General")

\* C8, amended: the flag true launches the direct kernel (MatMulKernelGeneral),
\* the flag false the tiled kernel (MatMulKernelPartitioned)
C8_TrueLaunchesDirect ==
    (hostpc \in AfterLaunchPcs /\ "launch" \notin failed) =>
        /\ kernel = (IF general THEN "General" ELSE "Partitioned")
        /\ general => \A w \in DOMAIN thr : thr[w].pc \in {"loop", "store", "done", "aborted"}

\* a call with the flag true has run the direct kernel to its end
C8_Witness ==
    /\ hostpc = "copyOut" /\ general /\ kernel = "General"
    /\ thr # << >> /\ \A w \in DOMAIN thr : thr[w].pc = "done"

\* the product of the caller's A and B
Expected ==
    [i \in 1..Size(C) |-> DotProduct((i - 1) \div C.width, (i - 1) % C.width, A.width)]

\* C9: when MatMul returns, C holds the product of A and B or the runtime's
\* last error is not cudaSuccess
C9_CorrectOrError ==
    (hostpc = "ret" /\ DimInvariants) =>
        (C.elements = Expected \/ lastError # cudaSuccess)

\* a call returns after an execution fault, C is not the product and an error
\* is pending
C9_Witness ==
    /\ hostpc = "ret" /\ DimInvariants
    /\ "exec" \in failed
    /\ C.elements # Expected
    /\ lastError # cudaSuccess

\* C10: the caller's A and B are as the caller filled them, and from the copy
\* of A (of B) into its accelerator buffer until that buffer is freed the
\* buffer holds A (B)
C10_InputsReadOnly ==
    /\ A = InputA(input) /\ B = InputB(input)
    /\ ("A" \in DOMAIN allocd
          /\ hostpc \in {"mallocB", "copyB", "mallocC", "launch", "copyOut", "freeA"})
          => (allocd["A"] \in DOMAIN heap /\ heap[allocd["A"]] = A.elements)
    /\ ("B" \in DOMAIN allocd
          /\ hostpc \in {"mallocC", "launch", "copyOut", "freeA", "freeB"})
          => (allocd["B"] \in DOMAIN heap /\ heap[allocd["B"]] = B.elements)

\* MatMul is past its cudaMemcpy of C
AfterCopyOutPcs == {"freeA", "freeB", "freeC", "ret"}

\* C11: the launch returns while threads of the kernel still run, and yet
\* once the copy of C to the host has been made every thread of the kernel
\* has ended, every cell of C has been stored to, and the host's C holds in
\* every cell the final Cvalue of the thread that stored to it
C11_CopyOutAfterCompletion ==
    (hostpc \in AfterCopyOutPcs /\ kernel # "none" /\ Staged /\ DimInvariants) =>
        /\ KernelDone
        /\ \A i \in DOMAIN writes :
              /\ Len(writes[i]) = 1
              /\ C.elements[i + 1] = thr[writes[i][1].by].Cvalue

\* the host was at the copy while threads of the tiled kernel were still
\* before their stores: a state the copy has to wait in
C11_WitnessAsync ==
    /\ hostpc = "copyOut" /\ kernel = "Partitioned"
    /\ \E w, u \in DOMAIN thr : thr[w].pc = "done" /\ thr[u].pc = "acc"

\* the copy has been made after a tiled run on two blocks
C11_Witness ==
    /\ hostpc = "freeA" /\ kernel = "Partitioned" /\ Staged /\ DimInvariants
    /\ Cardinality(DOMAIN As) = 2
    /\ C.elements = Expected
    /\ C.elements # InputC(input).elements

\* the storage cell of element (r, c) of view M: M.elements[r * M.stride + c]
CellIndex(M, r, c) == M.elements.off + r * M.stride + c

\* the views into the buffer of P: P itself and its windows of every extent
\* that is a multiple of BLOCK_SIZE, at every offset, all with P's stride
ViewsOf(P) ==
    {[width |-> w, height |-> h, stride |-> P.stride,
      elements |-> [base |-> P.elements.base, off |-> CellIndex(P, r0, c0)]] :
        <<h, w, r0, c0>> \in
            {v \in ({1, 2} \X {1, 2} \X (0..2) \X (0..2)) :
                /\ v[3] + v[1] * BLOCK_SIZE <= P.height
                /\ v[4] + v[2] * BLOCK_SIZE <= P.width}}

IsIdentity(M) ==
    /\ M.width = M.height
    /\ \A r, c \in 0..(M.width - 1) : Elem(M, r, c) = (IF r = c THEN 1 ELSE 0)

\* every cell of M is zero
IsZero(M) == \A i \in DOMAIN M.elements : M.elements[i] = 0

\* no cell of M is an infinity or a NaN
Finite(M) == \A i \in DOMAIN M.elements : M.elements[i] \notin {Inf, NaN}

\* C13 as stated: when a call in which no step failed returns and B is the
\* identity, C equals A cell for cell, with the flag true and with the flag
\* false
C13_IdentityLaw ==
    (hostpc = "ret" /\ failed = {} /\ DimInvariants /\ IsIdentity(B)) =>
        C.elements = A.elements

\* C13, amended: the same for an A all of whose cells are finite
C13_IdentityLawFinite ==
    (hostpc = "ret" /\ failed = {} /\ DimInvariants /\ IsIdentity(B) /\ Finite(A)) =>
        C.elements = A.elements

\* a tiled call with B the identity returns, C is A, and C was something
\* else before the call
C13_Witness ==
    /\ hostpc = "ret" /\ failed = {} /\ DimInvariants /\ IsIdentity(B)
    /\ ~general /\ kernel = "Partitioned"
    /\ Finite(A) /\ ~IsZero(A)
    /\ C.elements = A.elements
    /\ InputC(input).elements # A.elements

\* the same for a call of the direct kernel
C13_WitnessDirect ==
    /\ hostpc = "ret" /\ failed = {} /\ DimInvariants /\ IsIdentity(B)
    /\ general /\ kernel = "General"
    /\ Finite(A) /\ ~IsZero(A)
    /\ C.elements = A.elements

\* C14 as stated: when a call in which no step failed returns and A is all
\* zero or B is all zero, every cell of C is zero, whatever C held before the
\* call
C14_ZeroLaw ==
    (hostpc = "ret" /\ failed = {} /\ DimInvariants /\ (IsZero(A) \/ IsZero(B))) =>
        IsZero(C)

\* C14, amended: the same when the cells of the other matrix are all finite
C14_ZeroLawFinite ==
    (hostpc = "ret" /\ failed = {} /\ DimInvariants /\ Finite(A) /\ Finite(B)
        /\ (IsZero(A) \/ IsZero(B))) =>
            IsZero(C)

\* a tiled call with A all zero and B not returns; C held ones before the
\* call and holds zeros now
C14_Witness ==
    /\ hostpc = "ret" /\ failed = {} /\ DimInvariants
    /\ ~general /\ kernel = "Partitioned"
    /\ IsZero(A) /\ ~IsZero(B) /\ Finite(B)
    /\ \A i \in DOMAIN C.elements : InputC(input).elements[i] = 1
    /\ IsZero(C)

\* a direct call with B all zero and A not
C14_WitnessDirect ==
    /\ hostpc = "ret" /\ failed = {} /\ DimInvariants
    /\ general /\ kernel = "General"
    /\ IsZero(B) /\ ~IsZero(A) /\ Finite(A)
    /\ ~IsZero(InputC(input))
    /\ IsZero(C)

\* the number of whole tiles along the width of A, and the terms they cover
WholeTiles == d_A.width \div BLOCK_SIZE
Covered == WholeTiles * BLOCK_SIZE

\* C15: every thread of the tiled kernel makes exactly A.width div BLOCK_SIZE
\* passes of the loop over m (m counts the passes made), and no term e at or
\* beyond (A.width div BLOCK_SIZE) * BLOCK_SIZE is ever loaded into As or Bs or
\* added to a Cvalue
C15_LoopCount ==
    kernel = "Partitioned" =>
        /\ \A w \in DOMAIN thr :
              /\ thr[w].m <= WholeTiles
              /\ thr[w].pc \in {"loadA", "loadB", "sync1", "acc", "sync2"}
                    => thr[w].m < WholeTiles
              /\ thr[w].pc \in {"store", "done"}
                    => /\ thr[w].m = WholeTiles
                       /\ Len(thr[w].ord) = Covered
              /\ \A k \in DOMAIN thr[w].ord :
                    /\ thr[w].ord[k][1] % d_A.width < Covered
                    /\ thr[w].ord[k][2] \div d_B.width < Covered
        /\ \A g \in DOMAIN As : \A r, c \in 0..(BLOCK_SIZE - 1) :
              /\ As[g][r][c] # NoCell => As[g][r][c].src % d_A.width < Covered
              /\ Bs[g][r][c] # NoCell => Bs[g][r][c].src \div d_B.width < Covered

\* A is 3 wide: a thread has ended after one pass and two products, and the
\* term e = 2 is missing from the cell it stored
C15_Witness ==
    /\ KernelEnded("Partitioned")
    /\ d_A.width = 3
    /\ \A w \in DOMAIN thr :
          thr[w].pc = "done" /\ thr[w].m = 1 /\ Len(thr[w].ord) = 2
    /\ Cell(d_C, 0) = DotProduct(0, 0, 2)
    /\ Cell(d_C, 0) # DotProduct(0, 0, 3)

\* A is 4 wide: every thread has ended after two passes
C15_WitnessTwoPasses ==
    /\ KernelEnded("Partitioned")
    /\ d_A.width = 4
    /\ \A w \in DOMAIN thr : thr[w].pc = "done" /\ thr[w].m = 2

\* A is 1 wide: every thread has ended without a pass
C15_WitnessNoPass ==
    /\ KernelEnded("Partitioned")
    /\ d_A.width = 1
    /\ \A w \in DOMAIN thr : thr[w].pc = "done" /\ thr[w].m = 0 /\ thr[w].Cvalue = 0

\* C16 as stated: when B.width or A.height is not a multiple of BLOCK_SIZE the
\* launch is refused, no thread runs and an error is pending
C16_NonMultipleRejected ==
    (hostpc \in AfterLaunchPcs
        /\ (B.width % BLOCK_SIZE # 0 \/ A.height % BLOCK_SIZE # 0)) =>
            /\ "launch" \in failed
            /\ kernel = "none" /\ thr = << >>
            /\ lastError # cudaSuccess

\* C16, amended: the launch is refused (cudaErrorInvalidConfiguration, no
\* thread runs) exactly when B.width or A.height is less than BLOCK_SIZE;
\* otherwise the grid is (B.width div BLOCK_SIZE, A.height div BLOCK_SIZE),
\* the kernel runs, no error is raised, and the cells of C in the rows and
\* columns beyond the grid are never stored to
C16_ZeroGridRejected ==
    (hostpc \in AfterLaunchPcs /\ failed \subseteq {"launch"}) =>
        IF B.width < BLOCK_SIZE \/ A.height < BLOCK_SIZE
        THEN /\ "launch" \in failed
             /\ kernel = "none" /\ thr = << >>
             /\ lastError = "cudaErrorInvalidConfiguration"
        ELSE /\ "launch" \notin failed
             /\ kernel # "none"
             /\ Cardinality(DOMAIN thr)
                  = (B.width \div BLOCK_SIZE) * (A.height \div BLOCK_SIZE)
                    * BLOCK_SIZE * BLOCK_SIZE
             /\ lastError = cudaSuccess
             /\ \A i \in DOMAIN writes :
                   (i \div C.width >= (A.height \div BLOCK_SIZE) * BLOCK_SIZE
                    \/ i % C.width >= (B.width \div BLOCK_SIZE) * BLOCK_SIZE)
                       => writes[i] = << >>

\* A is 1 high: the launch was refused and MatMul is at its copy of C
C16_Witness ==
    /\ hostpc = "copyOut" /\ A.height = 1
    /\ failed = {"launch"} /\ kernel = "none"
    /\ lastError = "cudaErrorInvalidConfiguration"

\* A is 3 high: the kernel ran on a grid of one block, the third row of C was
\* never stored to, and MatMul returns without an error pending
C16_WitnessTruncated ==
    /\ hostpc = "ret" /\ A.height = 3
    /\ failed = {} /\ lastError = cudaSuccess
    /\ Cardinality(DOMAIN thr) = BLOCK_SIZE * BLOCK_SIZE
    /\ \A w \in DOMAIN thr : thr[w].pc = "done"
    /\ writes[4] = << >> /\ writes[5] = << >>

\* C17: when a call in which a cudaMalloc failed returns, every buffer the
\* call did allocate has been freed and is no longer live, and the runtime's
\* last error is not cudaSuccess
C17_CleanupOnAllocFailure ==
    (hostpc = "ret" /\ "alloc" \in failed) =>
        /\ Range(allocd) \subseteq freed
        /\ Range(allocd) \cap DOMAIN heap = {}
        /\ lastError # cudaSuccess

\* the part of C17 that the code keeps: the error stays pending, and the
\* buffers are freed unless the kernel, started on the pointer the failed
\* cudaMalloc left, died of an illegal address
C17_CleanupUnlessFault ==
    (hostpc = "ret" /\ "alloc" \in failed) =>
        /\ lastError # cudaSuccess
        /\ "exec" \notin failed =>
              (Range(allocd) \subseteq freed /\ Range(allocd) \cap DOMAIN heap = {})

\* the handle of X's descriptor is the one this call allocated for X, and live
Owned(name, d) ==
    /\ name \in DOMAIN allocd
    /\ d.elements.base = allocd[name]
    /\ allocd[name] \in DOMAIN heap
    /\ allocd[name] \notin freed

\* C18: each runtime call of MatMul and the launch are made on handles that a
\* cudaMalloc of this call returned and that are not freed yet: d_A at its
\* copy, d_B at its copy, all three at the launch, d_C at the copy back, each
\* at its cudaFree; and once a cudaFree has been made the kernel has ended
C18_ValidHandlesOnly ==
    /\ hostpc = "copyA" => Owned("A", d_A)
    /\ hostpc = "copyB" => Owned("B", d_B)
    /\ hostpc = "launch" => (Owned("A", d_A) /\ Owned("B", d_B) /\ Owned("C", d_C))
    /\ hostpc = "copyOut" => Owned("C", d_C)
    /\ hostpc = "freeA" => Owned("A", d_A)
    /\ hostpc = "freeB" => Owned("B", d_B)
    /\ hostpc = "freeC" => Owned("C", d_C)
    /\ hostpc \in {"freeB", "freeC", "ret"} => KernelDone

\* the barriers thread w has left
BarriersPassed(w) ==
    2 * thr[w].m + (IF thr[w].pc \in {"acc", "sync2"} THEN 1 ELSE 0)

\* every thread a grid of the model can have
AllThreads == (0..1) \X (0..1) \X (0..(BLOCK_SIZE - 1)) \X (0..(BLOCK_SIZE - 1))

AtBarrier(w) == w \in DOMAIN thr /\ thr[w].pc \in {"sync1", "sync2"}
HasStored(w) == w \in DOMAIN thr /\ thr[w].pc = "done"

\* the threads of a block have always left the same number of barriers, and
\* a thread past the loop has left 2 * (A.width div BLOCK_SIZE) of them
BarriersInStep ==
    kernel = "Partitioned" =>
        \A w \in DOMAIN thr :
            /\ \A u \in DOMAIN thr :
                  blockOf(u) = blockOf(w) => BarriersPassed(u) = BarriersPassed(w)
            /\ thr[w].pc \in {"store", "done"}
                  => BarriersPassed(w) = 2 * (d_A.width \div BLOCK_SIZE)

\* C19: in the tiled kernel the threads of a block leave every barrier
\* together, 2 * (A.width div BLOCK_SIZE) barriers in all; under fair
\* scheduling a thread waiting at a barrier always goes on to store its cell,
\* and a launched kernel comes to the state in which every thread has stored
C19_BarrierProgress ==
    /\ []BarriersInStep
    /\ \A w \in AllThreads : AtBarrier(w) ~> HasStored(w)
    /\ (kernel = "Partitioned")
          ~> (kernel = "Partitioned" /\ \A w \in DOMAIN thr : thr[w].pc = "done")

\* a thread waits at the second barrier of the second pass while another
\* thread of its block is still in the product loop
C19_WitnessWaiting ==
    /\ kernel = "Partitioned"
    /\ \E w, u \in DOMAIN thr :
          /\ thr[w].pc = "sync2" /\ thr[w].m = 1
          /\ thr[u].pc = "acc" /\ thr[u].m = 1

\* every thread has stored after two passes, four barriers
C19_Witness ==
    /\ kernel = "Partitioned"
    /\ d_A.width \div BLOCK_SIZE = 2
    /\ \A w \in DOMAIN thr : thr[w].pc = "done" /\ BarriersPassed(w) = 4

\* index i is a cell of the buffer of the full matrix M
InBounds(M, i) == 0 <= i /\ i < M.width * M.height

\* a coordinate of the __shared__ tiles
InTile(k) == 0 <= k /\ k < BLOCK_SIZE

\* C20: in a kernel run on matrices that meet the dimension invariants, for
\* every thread of the grid and every pass of its loops, the indices at
\* which it reads A and B and stores to C are cells of the respective
\* buffers and the indices into As and Bs are in 0..BLOCK_SIZE-1; and no
\* thread has made an access outside a buffer
C20_InBoundsAccess ==
    (kernel # "none" /\ Staged /\ DimInvariants) =>
        /\ "exec" \notin failed
        /\ DOMAIN thr = Threads([x |-> B.width \div BLOCK_SIZE,
                                   y |-> A.height \div BLOCK_SIZE], dimBlock)
        /\ kernel = "General" =>
              \A w \in DOMAIN thr :
                  /\ InBounds(d_C, GeneralIndexC(w))
                  /\ \A e \in 0..(d_A.width - 1) :
                        /\ InBounds(d_A, GeneralIndexA(w, e))
                        /\ InBounds(d_B, GeneralIndexB(w, e))
        /\ kernel = "Partitioned" =>
              \A w \in DOMAIN thr :
                  /\ InTile(row(w)) /\ InTile(col(w))
                  /\ \A e \in 0..(BLOCK_SIZE - 1) : InTile(AccIndex(e))
                  /\ InBounds(d_C, Csub(w).elements.off + PartitionedIndexC(w))
                  /\ \A m \in 0..(NumTiles(d_A) - 1) :
                        /\ InBounds(d_A, Asub(w, m).elements.off
                                           + row(w) * Asub(w, m).stride + col(w))
                        /\ InBounds(d_B, Bsub(w, m).elements.off
                                           + row(w) * Bsub(w, m).stride + col(w))

\* a tiled run on a grid of two blocks has ended: the thread with the
\* largest indices has stored the last cell of C
C20_Witness ==
    /\ KernelEnded("Partitioned") /\ Staged /\ DimInvariants
    /\ Cardinality(DOMAIN As) = 2
    /\ "exec" \notin failed
    /\ writes[Size(d_C) - 1] # << >>

\* a direct run on A of two tiles' width has ended
C20_WitnessDirect ==
    /\ KernelEnded("General") /\ Staged /\ DimInvariants
    /\ d_A.width = 2 * BLOCK_SIZE
    /\ "exec" \notin failed
    /\ \A w \in DOMAIN thr : thr[w].pc = "done" /\ thr[w].e = d_A.width

====
